---------------------------- MODULE Spec2Model ----------------------------
(***************************************************************************)
(* A model of utils/train_utils.py: the configuration-driven factories     *)
(* (set_norm_method, set_optimizer), the Logger, the AverageMeter,         *)
(* calculate_accuracy, save_checkpoint and adjust_learning_rate.           *)
(*                                                                         *)
(* The units of the file share nothing but the read-only Config, so each   *)
(* has a specification of its own (SpecMeter, SpecLogger, ...) in which    *)
(* the variables of the other units stay at their idle values.            *)
(*                                                                         *)
(* Python's true division and float products are modelled by exact         *)
(* rationals <<numerator, denominator>> in lowest terms (denominator > 0). *)
(***************************************************************************)
EXTENDS Integers, Sequences, FiniteSets, TLC

VARIABLES
    Config,        \* the global configuration object (never written here)
    \* AverageMeter
    val, avg, sum, count,
    \* Logger: the file at `path` as stored, the stream's unflushed rows,
    \* self.header (<<>> before construction), and what the file held before
    \* it was opened
    disk, buffer, header, prior,
    \* adjust_learning_rate: optimizer.param_groups
    param_groups,
    \* calculate_accuracy: arguments, the top-k indices and the result
    output, target, topk, pred, res,
    \* save_checkpoint: the files under Config.result_path, path -> content
    files,
    \* set_optimizer / set_norm_method: the object returned (<<>>: none)
    optimizer, normalizer,
    \* the last call, its arguments, its outcome and the value it returned
    \* (<<>>: None)
    lastOp, lastArg, err, ret,
    \* history: the update(val, n) calls since the last reset, the values
    \* of the log calls that returned, the states handed to save_checkpoint
    hist, calls, saved

vars == <<Config, val, avg, sum, count, disk, buffer, header, prior,
          param_groups,
          output, target, topk, pred, res, files, optimizer, normalizer,
          lastOp, lastArg, err, ret, hist, calls, saved>>

meterVars  == <<val, avg, sum, count, hist>>
loggerVars == <<disk, buffer, header, prior, calls>>
accVars    == <<output, target, topk, pred, res>>
ckptVars   == <<files, saved>>

(***************************************************************************)
(* Exact rationals.                                                        *)
(***************************************************************************)
Abs(x) == IF x < 0 THEN -x ELSE x

RECURSIVE GCD(_, _)
GCD(a, b) == IF b = 0 THEN a ELSE GCD(b, a % b)

\* a / b for b # 0, in lowest terms with a positive denominator
Frac(a, b) ==
    LET g == GCD(Abs(a), Abs(b))
        s == IF b < 0 THEN -1 ELSE 1
    IN  <<(s * a) \div g, (s * b) \div g>>

RatMul(p, q) == Frac(p[1] * q[1], p[2] * q[2])

RECURSIVE RatPow(_, _)
RatPow(p, n) == IF n = 0 THEN <<1, 1>> ELSE RatMul(p, RatPow(p, n - 1))

\* the sequences over S of length at most n
SeqsUpTo(S, n) == UNION { [1..k -> S] : k \in 0..n }

(***************************************************************************)
(* Config: the fields this file reads.  Numbers that are floats in the     *)
(* program are rationals here.                                             *)
(***************************************************************************)
DefaultConfig ==
    [mean_norm |-> FALSE, std_norm |-> FALSE,
     optimizer |-> "SGD", nesterov |-> FALSE, dampening |-> <<0, 1>>,
     learning_rate |-> <<1, 10>>, momentum |-> <<9, 10>>,
     weight_decay |-> <<1, 1000>>, betas |-> <<<<9, 10>>, <<999, 1000>>>>,
     eps |-> <<1, 100000000>>, amsgrad |-> FALSE,
     result_path |-> "results", store_name |-> "model",
     lr_steps |-> <<>>]

(***************************************************************************)
(* Idle values of each unit's variables.                                   *)
(***************************************************************************)
IdleMeter ==
    /\ val = 0 /\ avg = <<0, 1>> /\ sum = 0 /\ count = 0 /\ hist = <<>>
IdleLogger ==
    /\ disk = <<>> /\ buffer = <<>> /\ header = <<>> /\ prior = <<>>
    /\ calls = <<>>
IdleLR == param_groups = <<>>
IdleAcc ==
    /\ output = <<>> /\ target = <<>> /\ topk = <<>> /\ pred = <<>>
    /\ res = <<>>
IdleCkpt == files = <<>> /\ saved = <<>>
IdleFactories == optimizer = <<>> /\ normalizer = <<>>
IdleCall == lastOp = "init" /\ lastArg = <<>> /\ err = "none" /\ ret = <<>>

(***************************************************************************)
(* AverageMeter (train_utils.py, 160-176).                                 *)
(***************************************************************************)
MaxUpdates == 3                    \* update calls modelled between resets
SampleVals == {0, 3, 5}            \* the val arguments drawn
Weights == {-1, 0, 1, 2}           \* the n arguments drawn (n defaults to 1)

\* Faulty variant: the sample is added without its weight.
update_sum_unweighted(s, v, n) == s + v

\* self.sum += val * n
update_sum(s, v, n) == s + v * n

\* Faulty variant: the count is overwritten instead of accumulated.
update_count_overwrite(c, n) == n

\* self.count += n
update_count(c, n) == c + n

\* reset(): the four fields to zero; __init__ is a call of reset()
reset ==
    /\ val' = 0
    /\ avg' = <<0, 1>>
    /\ sum' = 0
    /\ count' = 0
    /\ hist' = <<>>
    /\ lastOp' = "reset" /\ lastArg' = <<0, 0>> /\ err' = "none"
    /\ ret' = <<>>
    /\ UNCHANGED <<Config, loggerVars, param_groups, accVars, ckptVars,
                   optimizer, normalizer>>

\* update(val, n): the fields are assigned in order, so the division by a
\* zero count raises after val, sum and count are written and before avg is
update(v, n) ==
    /\ Len(hist) < MaxUpdates
    /\ val' = v
    /\ sum' = update_sum(sum, v, n)
    /\ count' = update_count(count, n)
    /\ IF count' = 0
          THEN avg' = avg /\ err' = "ZeroDivisionError"
          ELSE avg' = Frac(sum', count') /\ err' = "none"
    /\ hist' = Append(hist, <<v, n>>)
    /\ lastOp' = "update" /\ lastArg' = <<v, n>> /\ ret' = <<>>
    /\ UNCHANGED <<Config, loggerVars, param_groups, accVars, ckptVars,
                   optimizer, normalizer>>

\* Faulty variant: avg as a property computed from sum and count on each read.
avg_read_computed(a, s, c) ==
    IF c = 0 THEN [value |-> a, err |-> "ZeroDivisionError"]
             ELSE [value |-> Frac(s, c), err |-> "none"]

\* what reading meter.avg gives: the stored attribute, nothing is computed
avg_read(a, s, c) == [value |-> a, err |-> "none"]

read_avg ==
    /\ ret' = <<avg_read(avg, sum, count).value>>
    /\ err' = avg_read(avg, sum, count).err
    /\ lastOp' = "read" /\ lastArg' = <<0, 0>>
    /\ UNCHANGED <<Config, meterVars, loggerVars, param_groups, accVars,
                   ckptVars, optimizer, normalizer>>

InitMeter ==
    /\ Config = DefaultConfig
    /\ IdleMeter /\ IdleLogger /\ IdleLR /\ IdleAcc /\ IdleCkpt
    /\ IdleFactories
    /\ lastOp = "init" /\ lastArg = <<0, 0>> /\ err = "none" /\ ret = <<>>

NextMeter ==
    \/ reset
    \/ \E v \in SampleVals, n \in Weights : update(v, n)
    \/ read_avg

SpecMeter == InitMeter /\ [][NextMeter]_vars

(***************************************************************************)
(* AverageMeter: properties.                                               *)
(***************************************************************************)
RECURSIVE TotalValTimesN(_)
TotalValTimesN(h) ==
    IF h = <<>> THEN 0 ELSE h[1][1] * h[1][2] + TotalValTimesN(Tail(h))

RECURSIVE TotalN(_)
TotalN(h) == IF h = <<>> THEN 0 ELSE h[1][2] + TotalN(Tail(h))

\* C1: in every state reached by reset() and update(val, n) calls, sum is
\* the total of val*n and count the total of n over the updates since the
\* last reset, and whenever count > 0 the stored avg is sum / count.
C1_AvgIsSumOverCount ==
    /\ sum = TotalValTimesN(hist)
    /\ count = TotalN(hist)
    /\ count > 0 => /\ avg[2] > 0
                    /\ avg[1] * count = sum * avg[2]

\* C1's case: from reset, update(3, 2) then update(5, 1).
C1_Witness ==
    /\ hist = << <<3, 2>>, <<5, 1>> >>
    /\ sum = 11 /\ count = 3 /\ avg = <<11, 3>>

\* C9 as stated: no update lowers count, only reset() does.
C9_CountNeverDecreasesOnUpdate ==
    [][/\ lastOp' = "update" => count' >= count
       /\ count' < count => lastOp' = "reset"]_vars

\* C9 amended: an update(val, n) with n >= 0 never lowers count (it adds n);
\* count is lowered only by reset(), to 0, or by an update with n < 0.
C9_CountNonDecreasingForNonNegativeN ==
    [][/\ (lastOp' = "update" /\ lastArg'[2] >= 0) =>
              /\ count' >= count
              /\ count' = count + lastArg'[2]
       /\ count' < count =>
              \/ lastOp' = "reset" /\ count' = 0
              \/ lastOp' = "update" /\ lastArg'[2] < 0]_vars

\* C9's case: three updates with n >= 0 since the last reset, count grown.
C9_Witness ==
    /\ lastOp = "update"
    /\ Len(hist) = 3
    /\ \A i \in 1..3 : hist[i][2] >= 0
    /\ count = 5

\* C10 as stated: reading avg after construction or reset(), before any
\* update, divides by zero; reading it after an update does not.
C10_ReadBeforeUpdateDivides ==
    /\ (lastOp = "read" /\ hist = <<>>) => err = "ZeroDivisionError"
    /\ (lastOp = "read" /\ hist # <<>>) => err # "ZeroDivisionError"

\* C10 amended: reading avg never divides, it returns the stored value,
\* which is 0 after construction or reset(); the only division is the one
\* in update, which fails exactly when the count it has just written is 0.
C10_OnlyUpdateDivides ==
    /\ lastOp = "read" => err = "none" /\ ret = <<avg>>
    /\ (lastOp = "read" /\ hist = <<>>) => ret = << <<0, 1>> >>
    /\ err = "ZeroDivisionError" <=> (lastOp = "update" /\ count = 0)

\* C10's case: avg read right after construction or reset().
C10_Witness ==
    /\ lastOp = "read" /\ hist = <<>> /\ count = 0
    /\ err = "none" /\ ret = << <<0, 1>> >>

(***************************************************************************)
(* Logger (train_utils.py, 139-158).  The file is a sequence of rows, a    *)
(* row the sequence of its tab-separated fields.  A row handed to          *)
(* writerow stays in the stream's buffer until log_file.flush().           *)
(***************************************************************************)
MaxRows == 2                       \* log calls that return, per Logger
Columns == {"epoch", "loss", "acc"}
Headers == { <<"epoch", "loss", "acc">>, <<"loss", "epoch">> }
CellValues == {1, 2}
\* the mappings passed to log: every subset of the columns as keys
Mappings == UNION { [K -> CellValues] : K \in SUBSET Columns }
PriorContents == { <<>>, << <<"stale">> >>, << <<"x", "y">>, <<"7", "8">> >> }

\* csv.writer.writerow on numbers: each field is str(value)
writerow(fields) == [i \in 1..Len(fields) |-> ToString(fields[i])]

\* the loop of log(): write_values grows column by column, in header
\* order, and the assertion stops it at the first column missing in values
RECURSIVE collect(_, _, _)
collect(cols, values, write_values) ==
    IF cols = <<>>
      THEN [ok |-> TRUE, write_values |-> write_values]
      ELSE IF Head(cols) \notin DOMAIN values
        THEN [ok |-> FALSE, write_values |-> write_values]
        ELSE collect(Tail(cols), values,
                     Append(write_values, values[Head(cols)]))

Reverse(s) == [i \in 1..Len(s) |-> s[Len(s) + 1 - i]]

\* Faulty variant: the columns are walked in the opposite order.
gather_reversed(hdr, values) == collect(Reverse(hdr), values, <<>>)

gather(hdr, values) == collect(hdr, values, <<>>)

\* Faulty variant: the values found before the missing column are written.
rows_written_partial(hdr, values) == << writerow(gather(hdr, values).write_values) >>

\* the rows log() hands to writerow: one when every column was found, none
\* when the assertion failed (write_values is a local, dropped on failure)
rows_written(hdr, values) ==
    IF gather(hdr, values).ok
      THEN << writerow(gather(hdr, values).write_values) >>
      ELSE <<>>

\* open(path, 'w'): the file is truncated
open_w(content) == <<>>

\* Logger(path, header): open, then writerow(header); nothing is flushed
Logger_init(h) ==
    /\ header = <<>>
    /\ disk' = open_w(disk)
    /\ buffer' = <<h>>
    /\ header' = h
    /\ calls' = <<>>
    /\ lastOp' = "Logger" /\ lastArg' = <<>> /\ err' = "none" /\ ret' = <<>>
    /\ UNCHANGED <<Config, prior, meterVars, param_groups, accVars, ckptVars,
                   optimizer, normalizer>>

\* log(values)
log(values) ==
    /\ header # <<>>
    /\ Len(calls) < MaxRows
    /\ IF gather(header, values).ok
         THEN /\ disk' = disk \o buffer \o rows_written(header, values)
              /\ buffer' = <<>>
              /\ calls' = Append(calls, values)
              /\ err' = "none"
         ELSE /\ disk' = disk
              /\ buffer' = buffer \o rows_written(header, values)
              /\ calls' = calls
              /\ err' = "AssertionError"
    /\ lastOp' = "log" /\ lastArg' = values /\ ret' = <<>>
    /\ UNCHANGED <<Config, header, prior, meterVars, param_groups, accVars,
                   ckptVars, optimizer, normalizer>>

InitLogger ==
    /\ Config = DefaultConfig
    /\ IdleMeter /\ IdleLR /\ IdleAcc /\ IdleCkpt /\ IdleFactories
    /\ prior \in PriorContents
    /\ disk = prior
    /\ buffer = <<>> /\ header = <<>> /\ calls = <<>>
    /\ lastOp = "init" /\ lastArg = <<>> /\ err = "none" /\ ret = <<>>

NextLogger ==
    \/ \E h \in Headers : Logger_init(h)
    \/ \E values \in Mappings : log(values)

SpecLogger == InitLogger /\ [][NextLogger]_vars

(***************************************************************************)
(* Logger: properties.                                                     *)
(***************************************************************************)
Missing(hdr, values) == { j \in 1..Len(hdr) : hdr[j] \notin DOMAIN values }

\* the row the file must hold for one log call
IsRowOf(row, hdr, values) ==
    /\ Len(row) = Len(hdr)
    /\ \A j \in 1..Len(hdr) : row[j] = ToString(values[hdr[j]])

\* C2: once a log call has returned, the file holds exactly the header row
\* followed by one row per log call that returned, in call order, each with
\* the values looked up by column name in header order; what the file held
\* before construction is gone (from construction on).
C2_FileIsHeaderThenRows ==
    header # <<>> =>
        /\ calls # <<>> => buffer = <<>>
        /\ Len(disk \o buffer) = 1 + Len(calls)
        /\ (disk \o buffer)[1] = header
        /\ \A i \in 1..Len(calls) :
               IsRowOf((disk \o buffer)[i + 1], header, calls[i])
        /\ calls = <<>> => disk = <<>>

\* C2's case: a file with earlier content, a header whose order is not that
\* of the keys, two log calls returned, the first with a key not in header.
C2_Witness ==
    /\ prior # <<>>
    /\ header = <<"loss", "epoch">>
    /\ Len(calls) = 2
    /\ calls[1] = [epoch |-> 1, loss |-> 2, acc |-> 2]
    /\ calls[2] = [epoch |-> 2, loss |-> 1]
    /\ disk = << <<"loss", "epoch">>, <<"2", "1">>, <<"1", "2">> >>

\* C3: a log call on a mapping that lacks a column of the header fails with
\* an assertion and leaves the rows written so far (stored and buffered)
\* as they were, whichever column is missing; a log call with every column
\* present appends exactly one complete row.
C3_MissingColumnWritesNothing ==
    [][lastOp' = "log" =>
         /\ Missing(header, lastArg') # {} =>
               /\ err' = "AssertionError"
               /\ disk' = disk /\ buffer' = buffer /\ calls' = calls
         /\ Missing(header, lastArg') = {} =>
               /\ err' = "none"
               /\ Len(disk' \o buffer') = Len(disk \o buffer) + 1
               /\ SubSeq(disk' \o buffer', 1, Len(disk \o buffer))
                     = disk \o buffer
               /\ IsRowOf((disk' \o buffer')[Len(disk \o buffer) + 1],
                          header, lastArg')]_vars

\* C3's case: one row is in the file and a log call whose mapping lacks the
\* middle column only has just failed.
C3_Witness ==
    /\ lastOp = "log" /\ err = "AssertionError"
    /\ Len(header) = 3
    /\ Missing(header, lastArg) = {2}
    /\ Len(disk) = 2 /\ Len(calls) = 1

(***************************************************************************)
(* adjust_learning_rate (train_utils.py, 200-204).                         *)
(***************************************************************************)
MaxSteps == 2                      \* entries of Config.lr_steps
MaxGroups == 2                     \* parameter groups of the optimizer
StepValues == {30, 60}
Epochs == {10, 30, 59, 60, 75}
BaseRates == { <<1, 10>>, <<1, 100>> }
PriorRates == { <<1, 10>>, <<7, 2>> }

\* sum(epoch >= np.array(lr_steps)): the comparison is elementwise and the
\* sum counts the entries for which it is true
RECURSIVE steps_reached(_, _)
steps_reached(lr_steps, epoch) ==
    IF lr_steps = <<>> THEN 0
    ELSE (IF epoch >= Head(lr_steps) THEN 1 ELSE 0)
            + steps_reached(Tail(lr_steps), epoch)

RECURSIVE steps_passed(_, _)
steps_passed(lr_steps, epoch) ==
    IF lr_steps = <<>> THEN 0
    ELSE (IF epoch > Head(lr_steps) THEN 1 ELSE 0)
            + steps_passed(Tail(lr_steps), epoch)

\* Faulty variant: a step takes effect only after its epoch.
lr_new_after_step(learning_rate, lr_steps, epoch) ==
    RatMul(learning_rate, RatPow(<<1, 10>>, steps_passed(lr_steps, epoch)))

\* lr_new = Config.learning_rate * (0.1 ** sum(epoch >= lr_steps))
lr_new(learning_rate, lr_steps, epoch) ==
    RatMul(learning_rate, RatPow(<<1, 10>>, steps_reached(lr_steps, epoch)))

\* adjust_learning_rate(optimizer, epoch): every group's 'lr' is overwritten
adjust_learning_rate(epoch) ==
    /\ param_groups' =
          [g \in DOMAIN param_groups |->
              [param_groups[g] EXCEPT
                  !.lr = lr_new(Config.learning_rate, Config.lr_steps, epoch)]]
    /\ lastOp' = "adjust_learning_rate" /\ lastArg' = epoch
    /\ err' = "none" /\ ret' = <<>>
    /\ UNCHANGED <<Config, meterVars, loggerVars, accVars, ckptVars,
                   optimizer, normalizer>>

InitLR ==
    /\ \E base \in BaseRates, steps \in SeqsUpTo(StepValues, MaxSteps) :
          Config = [DefaultConfig EXCEPT !.learning_rate = base,
                                         !.lr_steps = steps]
    /\ \E k \in 1..MaxGroups :
          param_groups \in [1..k -> [lr : PriorRates, momentum : {<<9, 10>>}]]
    /\ IdleMeter /\ IdleLogger /\ IdleAcc /\ IdleCkpt /\ IdleFactories
    /\ lastOp = "init" /\ lastArg = 0 /\ err = "none" /\ ret = <<>>

NextLR == \E epoch \in Epochs : adjust_learning_rate(epoch)

SpecLR == InitLR /\ [][NextLR]_vars

(***************************************************************************)
(* adjust_learning_rate: properties.                                       *)
(***************************************************************************)
StepsAtOrBefore(epoch) ==
    Cardinality({ i \in DOMAIN Config.lr_steps : Config.lr_steps[i] <= epoch })

MaxTopk == 2                       \* entries of the topk argument
Classes == 1..3
ScoreValues == {0, 1, 2}
BatchSizes == {1, 2}
Ks == 1..4                         \* the k values drawn; 4 exceeds the classes
\* the topk arguments drawn: the k values in any order, none repeated
TopkArgs ==
    { ks \in SeqsUpTo(Ks, MaxTopk) :
        \A i, j \in DOMAIN ks : i # j => ks[i] # ks[j] }

Max(S) == CHOOSE x \in S : \A y \in S : y <= x
Range(f) == { f[i] : i \in DOMAIN f }

RECURSIVE Product(_)
Product(sets) ==
    IF sets = <<>> THEN { <<>> }
    ELSE { <<h>> \o t : h \in Head(sets), t \in Product(Tail(sets)) }

\* output.topk(maxk, 1, True, True) for one example: the indices of maxk
\* largest scores, largest first.  Which of several equal scores comes
\* first, or is kept at the cut, is the library's choice: every order that
\* agrees with the scores is a possible result.
topk_indices(scores, maxk) ==
    { p \in [1..maxk -> Classes] :
        /\ \A i, j \in 1..maxk : i < j =>
               (p[i] # p[j] /\ scores[p[i]] >= scores[p[j]])
        /\ \A c \in Classes \ Range(p) :
               \A i \in 1..maxk : scores[c] <= scores[p[i]] }

\* pred = pred.t(): row j holds, for each example, its j-th best class
transpose(p, maxk) ==
    [j \in 1..maxk |-> [b \in DOMAIN p |-> p[b][j]]]

\* Faulty variant: every k is scored on all maxk rows of correct.
correct_k_all_rows(pr, tgt, k) ==
    Cardinality({ jb \in (DOMAIN pr) \X (DOMAIN tgt) :
                      pr[jb[1]][jb[2]] = tgt[jb[2]] })

\* correct = pred.eq(target.view(1, -1).expand_as(pred));
\* correct_k = correct[:k].view(-1).float().sum(0)
correct_k(pr, tgt, k) ==
    Cardinality({ jb \in (1..k) \X (DOMAIN tgt) :
                      pr[jb[1]][jb[2]] = tgt[jb[2]] })

\* the loop over topk: res holds correct_k * (100.0 / batch_size) per k
accuracy_results(pr, tgt, ks) ==
    [i \in DOMAIN ks |-> Frac(correct_k(pr, tgt, ks[i]) * 100, Len(tgt))]

calculate_accuracy ==
    /\ lastOp = "init"
    /\ lastOp' = "calculate_accuracy"
    /\ IF topk = <<>>
         THEN \* max(topk) of an empty sequence
              err' = "ValueError" /\ pred' = pred /\ res' = res
         ELSE IF Max(Range(topk)) > Cardinality(Classes)
         THEN \* topk is asked for more indices than there are classes
              err' = "RuntimeError" /\ pred' = pred /\ res' = res
         ELSE /\ \E p \in Product([b \in DOMAIN output |->
                          topk_indices(output[b], Max(Range(topk)))]) :
                     pred' = transpose(p, Max(Range(topk)))
              /\ res' = accuracy_results(pred', target, topk)
              /\ err' = "none"
    /\ UNCHANGED <<Config, output, target, topk, lastArg, ret, meterVars,
                   loggerVars, param_groups, ckptVars, optimizer, normalizer>>

InitAccuracy ==
    /\ Config = DefaultConfig
    /\ \E n \in BatchSizes :
          /\ output \in [1..n -> [Classes -> ScoreValues]]
          /\ target \in [1..n -> Classes]
    /\ topk \in TopkArgs
    /\ pred = <<>> /\ res = <<>>
    /\ IdleMeter /\ IdleLogger /\ IdleLR /\ IdleCkpt /\ IdleFactories
    /\ IdleCall

NextAccuracy == calculate_accuracy

SpecAccuracy == InitAccuracy /\ [][NextAccuracy]_vars

(***************************************************************************)
(* calculate_accuracy: properties.                                         *)
(***************************************************************************)
\* the examples whose true class is among the k highest-scoring classes
\* whichever way equal scores are ordered
SurelyInTop(k) ==
    { b \in DOMAIN target :
        Cardinality({ c \in Classes \ {target[b]} :
                          output[b][c] >= output[b][target[b]] }) < k }

\* ... and under some ordering of equal scores
PossiblyInTop(k) ==
    { b \in DOMAIN target :
        Cardinality({ c \in Classes :
                          output[b][c] > output[b][target[b]] }) < k }

\* C5: a call that returns gives one result per requested k, in the order
\* requested, each 100 * (number of examples whose true class is among the
\* k highest-scoring classes) / batch_size: exactly that when no score
\* equal to the true class's leaves the membership open, and between the
\* two counts otherwise.
C5_AccuracyPerRequestedK ==
    (lastOp = "calculate_accuracy" /\ err = "none") =>
        /\ Len(res) = Len(topk)
        /\ \A i \in DOMAIN topk :
              /\ res[i][2] > 0
              /\ 100 * Cardinality(SurelyInTop(topk[i])) * res[i][2]
                    <= res[i][1] * Len(target)
              /\ res[i][1] * Len(target)
                    <= 100 * Cardinality(PossiblyInTop(topk[i])) * res[i][2]

\* C5's case: the largest k is requested first; of two examples without
\* equal scores both have the true class in the top 2 and one has it first.
C5_Witness ==
    /\ lastOp = "calculate_accuracy" /\ err = "none"
    /\ topk = <<2, 1>>
    /\ output = << <<2, 1, 0>>, <<0, 1, 2>> >>
    /\ target = <<1, 2>>
    /\ res = << <<100, 1>>, <<50, 1>> >>

(***************************************************************************)
(* save_checkpoint (train_utils.py, 194-197).  A path is the string the    *)
(* format expression builds; files maps the paths that exist to what they  *)
(* hold.                                                                   *)
(***************************************************************************)
CheckpointStates == {"A", "B", "C"}          \* the opaque state blobs
StoreNames == {"model", "run2", "model_best"}
NoFiles == [p \in {} |-> "A"]

\* '%s/%s_checkpoint.pth' % (Config.result_path, store_name)
checkpoint_path(result_path, store_name) ==
    result_path \o "/" \o store_name \o "_checkpoint.pth"

\* Faulty variant: the best file is named after the store_name argument.
best_path_of_argument(result_path, configured, store_name) ==
    result_path \o "/" \o store_name \o "_best.pth"

\* '%s/%s_best.pth' % (Config.result_path, Config.store_name)
best_path(result_path, configured, store_name) ==
    result_path \o "/" \o configured \o "_best.pth"

\* a file written, or overwritten, at path
WriteFile(fs, path, content) ==
    [p \in DOMAIN fs \cup {path} |-> IF p = path THEN content ELSE fs[p]]

\* save_checkpoint(state, is_best, store_name): torch.save, then copyfile
\* of what was just saved when is_best
save_checkpoint(state, is_best, store_name) ==
    LET ckpt == checkpoint_path(Config.result_path, store_name)
        best == best_path(Config.result_path, Config.store_name, store_name)
        stored == WriteFile(files, ckpt, state)
    IN  /\ files' = IF is_best THEN WriteFile(stored, best, stored[ckpt])
                               ELSE stored
        /\ saved' = [last |-> WriteFile(saved.last, store_name, state),
                     best |-> IF is_best THEN <<state>> ELSE saved.best,
                     bestFrom |-> IF is_best THEN <<store_name>>
                                             ELSE saved.bestFrom]
        /\ lastOp' = "save_checkpoint"
        /\ lastArg' = <<state, is_best, store_name>>
        /\ err' = "none" /\ ret' = <<>>
        /\ UNCHANGED <<Config, meterVars, loggerVars, param_groups, accVars,
                       optimizer, normalizer>>

InitCheckpoint ==
    /\ \E name \in {"model", "run2"} :
          Config = [DefaultConfig EXCEPT !.store_name = name]
    /\ files = NoFiles
    /\ saved = [last |-> NoFiles, best |-> <<>>, bestFrom |-> <<>>]
    /\ IdleMeter /\ IdleLogger /\ IdleLR /\ IdleAcc /\ IdleFactories
    /\ IdleCall

NextCheckpoint ==
    \E state \in CheckpointStates, is_best \in BOOLEAN,
       store_name \in StoreNames :
          save_checkpoint(state, is_best, store_name)

SpecCheckpoint == InitCheckpoint /\ [][NextCheckpoint]_vars

(***************************************************************************)
(* save_checkpoint: properties.                                            *)
(***************************************************************************)
BestFile == Config.result_path \o "/" \o Config.store_name \o "_best.pth"

\* C6: after any sequence of calls, <result_path>/<store_name>_checkpoint.pth
\* holds the state of the latest call made with that store_name, and
\* <result_path>/<configured store name>_best.pth the state of the latest
\* call made with is_best true, whatever its store_name; the best file is
\* absent while no call was made with is_best true (so a call with is_best
\* false leaves it as it was).
C6_CheckpointAndBestFiles ==
    /\ \A name \in StoreNames :
          LET f == Config.result_path \o "/" \o name \o "_checkpoint.pth"
          IN  IF name \in DOMAIN saved.last
                THEN f \in DOMAIN files /\ files[f] = saved.last[name]
                ELSE f \notin DOMAIN files
    /\ IF saved.best = <<>>
         THEN BestFile \notin DOMAIN files
         ELSE BestFile \in DOMAIN files /\ files[BestFile] = saved.best[1]

\* C6's case: the best state was saved under a store_name other than the
\* configured one, and a later call with is_best false wrote another state.
C6_Witness ==
    /\ Config.store_name = "model"
    /\ saved.bestFrom = <<"run2">> /\ saved.best = <<"B">>
    /\ lastArg = <<"C", FALSE, "run2">>
    /\ DOMAIN files = {"results/run2_checkpoint.pth", "results/model_best.pth"}
    /\ files["results/run2_checkpoint.pth"] = "C"
    /\ files["results/model_best.pth"] = "B"

(***************************************************************************)
(* set_optimizer (train_utils.py, 81-114).  The optimizer built is the     *)
(* record of the arguments handed to its constructor.                      *)
(***************************************************************************)
OptimizerKinds == {"SGD", "Adam", "RMSprop"}
Dampenings == { <<0, 1>>, <<1, 2>> }
Momenta == { <<0, 1>>, <<9, 10>> }
WeightDecays == { <<0, 1>>, <<1, 1000>> }

\* Faulty variant: the configured dampening is passed whatever nesterov is.
sgd_dampening_configured(nesterov, dampening) == dampening

\* dampening = 0 if Config.nesterov else Config.dampening
sgd_dampening(nesterov, dampening) ==
    IF nesterov THEN <<0, 1>> ELSE dampening

set_optimizer ==
    /\ lastOp = "init"
    /\ lastOp' = "set_optimizer"
    /\ IF ~(Config.optimizer = "SGD" \/ Config.optimizer = "Adam")
         THEN optimizer' = <<>> /\ err' = "AssertionError"
         ELSE IF Config.optimizer = "SGD"
         THEN /\ optimizer' =
                   << [kind |-> "SGD",
                       lr |-> Config.learning_rate,
                       momentum |-> Config.momentum,
                       dampening |-> sgd_dampening(Config.nesterov,
                                                   Config.dampening),
                       weight_decay |-> Config.weight_decay,
                       nesterov |-> Config.nesterov] >>
              /\ err' = "none"
         ELSE /\ optimizer' =
                   << [kind |-> "Adam",
                       lr |-> Config.learning_rate,
                       betas |-> Config.betas,
                       eps |-> Config.eps,
                       weight_decay |-> Config.weight_decay,
                       amsgrad |-> Config.amsgrad] >>
              /\ err' = "none"
    /\ UNCHANGED <<Config, lastArg, ret, meterVars, loggerVars, param_groups,
                   accVars, ckptVars, normalizer>>

InitOptimizer ==
    /\ \E kind \in OptimizerKinds, nest \in BOOLEAN, damp \in Dampenings,
          mom \in Momenta, base \in BaseRates, wd \in WeightDecays,
          ams \in BOOLEAN :
          Config = [DefaultConfig EXCEPT
                       !.optimizer = kind, !.nesterov = nest,
                       !.dampening = damp, !.momentum = mom,
                       !.learning_rate = base, !.weight_decay = wd,
                       !.amsgrad = ams]
    /\ IdleMeter /\ IdleLogger /\ IdleLR /\ IdleAcc /\ IdleCkpt
    /\ IdleFactories /\ IdleCall

NextOptimizer == set_optimizer

SpecOptimizer == InitOptimizer /\ [][NextOptimizer]_vars

(***************************************************************************)
(* set_optimizer: properties.                                              *)
(***************************************************************************)
\* C7: for "SGD" and "Adam" the optimizer is built with exactly the
\* configured hyperparameters, except that for SGD nesterov = true makes
\* dampening 0 whatever is configured (nesterov = false passes it on); any
\* other kind fails an assertion and builds nothing.
C7_OptimizerMatchesConfig ==
    lastOp = "set_optimizer" =>
        /\ Config.optimizer = "SGD" =>
              /\ err = "none" /\ Len(optimizer) = 1
              /\ optimizer[1].kind = "SGD"
              /\ optimizer[1].lr = Config.learning_rate
              /\ optimizer[1].momentum = Config.momentum
              /\ optimizer[1].weight_decay = Config.weight_decay
              /\ optimizer[1].nesterov = Config.nesterov
              /\ Config.nesterov => optimizer[1].dampening = <<0, 1>>
              /\ ~Config.nesterov => optimizer[1].dampening = Config.dampening
        /\ Config.optimizer = "Adam" =>
              /\ err = "none" /\ Len(optimizer) = 1
              /\ optimizer[1].kind = "Adam"
              /\ optimizer[1].lr = Config.learning_rate
              /\ optimizer[1].betas = Config.betas
              /\ optimizer[1].eps = Config.eps
              /\ optimizer[1].weight_decay = Config.weight_decay
              /\ optimizer[1].amsgrad = Config.amsgrad
        /\ Config.optimizer \notin {"SGD", "Adam"} =>
              err = "AssertionError" /\ optimizer = <<>>

\* C7's case: SGD with nesterov and a configured dampening that is not 0.
C7_Witness ==
    /\ lastOp = "set_optimizer"
    /\ Config.optimizer = "SGD" /\ Config.nesterov
    /\ Config.dampening = <<1, 2>>
    /\ optimizer # <<>> /\ optimizer[1].dampening = <<0, 1>>

(***************************************************************************)
(* set_norm_method (train_utils.py, 19-41).  The Normalize object is the   *)
(* pair of arguments it is built from.                                     *)
(***************************************************************************)
Means == [1..3 -> {0, 110}]
Stds == [1..3 -> {1, 38}]

\* Faulty variant: the first test looks at mean_norm alone.
norm_arguments_mean_first(mean_norm, std_norm, mean, std) ==
    IF mean_norm
      THEN [mean |-> <<0, 0, 0>>, std |-> <<1, 1, 1>>]
      ELSE IF ~std_norm
        THEN [mean |-> mean, std |-> <<1, 1, 1>>]
        ELSE [mean |-> mean, std |-> std]

\* the if / elif / else of set_norm_method
norm_arguments(mean_norm, std_norm, mean, std) ==
    IF mean_norm /\ ~std_norm
      THEN [mean |-> <<0, 0, 0>>, std |-> <<1, 1, 1>>]
      ELSE IF ~std_norm
        THEN [mean |-> mean, std |-> <<1, 1, 1>>]
        ELSE [mean |-> mean, std |-> std]

set_norm_method(mean, std) ==
    /\ normalizer' = << norm_arguments(Config.mean_norm, Config.std_norm,
                                       mean, std) >>
    /\ lastOp' = "set_norm_method" /\ lastArg' = <<mean, std>>
    /\ err' = "none" /\ ret' = <<>>
    /\ UNCHANGED <<Config, meterVars, loggerVars, param_groups, accVars,
                   ckptVars, optimizer>>

InitNorm ==
    /\ \E m \in BOOLEAN, sd \in BOOLEAN :
          Config = [DefaultConfig EXCEPT !.mean_norm = m, !.std_norm = sd]
    /\ IdleMeter /\ IdleLogger /\ IdleLR /\ IdleAcc /\ IdleCkpt
    /\ IdleFactories /\ IdleCall

NextNorm == \E mean \in Means, std \in Stds : set_norm_method(mean, std)

SpecNorm == InitNorm /\ [][NextNorm]_vars

(***************************************************************************)
(* set_norm_method: properties.                                            *)
(***************************************************************************)
\* C8: the normalizer returned uses mean [0,0,0] and std [1,1,1] when
\* mean_norm is true and std_norm false; the supplied mean with std [1,1,1]
\* when both are false; the supplied mean and std whenever std_norm is
\* true, whatever mean_norm is.
C8_NormPrecedenceTable ==
    lastOp = "set_norm_method" =>
        /\ Len(normalizer) = 1
        /\ (Config.mean_norm /\ ~Config.std_norm) =>
              normalizer[1] = [mean |-> <<0, 0, 0>>, std |-> <<1, 1, 1>>]
        /\ (~Config.mean_norm /\ ~Config.std_norm) =>
              normalizer[1] = [mean |-> lastArg[1], std |-> <<1, 1, 1>>]
        /\ Config.std_norm =>
              normalizer[1] = [mean |-> lastArg[1], std |-> lastArg[2]]

\* C8's case: both flags true, with a mean and a std that are not the
\* neutral ones.
C8_Witness ==
    /\ lastOp = "set_norm_method"
    /\ Config.mean_norm /\ Config.std_norm
    /\ lastArg = << <<110, 110, 0>>, <<38, 1, 38>> >>
    /\ normalizer = << [mean |-> <<110, 110, 0>>, std |-> <<38, 1, 38>>] >>

=============================================================================
